---- MODULE Spec2Model ----
(***************************************************************************)
(* Littlefield Lite (src/game.py): a three-station factory (Prep ->        *)
(* Assembly -> Testing) simulated one day at a time with a discrete-event  *)
(* engine, and the campaign state (day, cash, history, backlog, order ids, *)
(* machines owned) that is carried from one day to the next.               *)
(*                                                                         *)
(* Time is counted in whole hours.  The exponential samples of the source  *)
(* (interarrival gaps, service durations) are drawn from small sets.       *)
(* The event engine is modelled as the library runs it: a queue of events  *)
(* ordered by (time, urgent before normal, insertion order); one model     *)
(* step processes one event.  The event by which a finished process        *)
(* announces its own end has no callback in this program and is left out.  *)
(***************************************************************************)
EXTENDS Integers, Sequences, FiniteSets, TLC

\* ------------------------------------------------------------ configuration
HOURS_PER_DAY == 24
REVENUE_PER_ORDER == 1000
MAX_LEAD_TIME_FOR_BONUS == 24
LATE_PENALTY == 500
MACHINE_COST == 20000
StartingCash == 50000
CampaignDays == 30
DefaultMachines == 1

PROC_TIMES == {"Prep", "Assembly", "Testing"}

\* ------------------------------------------------------------------ bounds
\* orders admitted in a campaign, machines requested per station, days on
\* which orders arrive and the machine inputs leave their default
MaxOrders == 3
MaxMachines == 2
BusyDays == 2

\* the samples random.expovariate may return (hours)
InterarrivalSamples == {0, 12, 30}
ServiceSamples == {3, 30}

\* the arrivals generator, as a process of the environment
ARRIVALS == 0

VARIABLES
    day, cash, history_logs, backlog, last_order_id, machines_owned,
    pc, warning,
    machine_counts, now, queue, users, put_queue, procs, t,
    completed_orders, order_id_counter

campaign == <<day, cash, history_logs, backlog, last_order_id, machines_owned>>
factory == <<machine_counts, now, queue, users, put_queue, procs, t,
             completed_orders, order_id_counter>>
vars == <<day, cash, history_logs, backlog, last_order_id, machines_owned,
          pc, warning,
          machine_counts, now, queue, users, put_queue, procs, t,
          completed_orders, order_id_counter>>

\* ------------------------------------------------------------------ helpers
RECURSIVE SumRevenue(_)
SumRevenue(orders) ==
    IF orders = <<>> THEN 0
    ELSE Head(orders).Revenue + SumRevenue(Tail(orders))

Remove(seq, x) == SelectSeq(seq, LAMBDA y : y # x)

NoMachines == [k \in {} |-> 0]
OneEach == [k \in PROC_TIMES |-> DefaultMachines]
Empty == [k \in PROC_TIMES |-> <<>>]

\* an event of the environment's queue
Event(time, urgent, kind, proc, station) ==
    [time |-> time, urgent |-> urgent, kind |-> kind, proc |-> proc,
     station |-> station]

\* e is processed before f when both are in the queue and f was scheduled last
Before(e, f) ==
    \/ e.time < f.time
    \/ e.time = f.time /\ (e.urgent \/ ~f.urgent)

\* Environment.schedule: the new event goes behind every event of the same
\* time and priority
Schedule(q, e) ==
    LET n == Cardinality({i \in 1..Len(q) : Before(q[i], e)})
    IN  SubSeq(q, 1, n) \o <<e>> \o SubSeq(q, n + 1, Len(q))

\* ------------------------------------------------------- stations (resources)
\* the three parts of the engine a station request or release changes
Engine(us, pq, q) == [users |-> us, put_queue |-> pq, queue |-> q]

HasFreeUnitOffByOne(occupied, capacity) == occupied <= capacity

\* Resource._do_put: a unit is free
HasFreeUnit(occupied, capacity) == occupied < capacity

NextInLineNewest(waiting) == waiting[Len(waiting)]

\* Resource._trigger_put: the request that is tried next
NextInLine(waiting) == Head(waiting)

\* Resource._trigger_put: try the first waiting request of station s; when a
\* unit is free the request joins the users and its grant is scheduled
TriggerPut(R, s, at) ==
    IF R.put_queue[s] = <<>> THEN R
    ELSE LET p == NextInLine(R.put_queue[s])
         IN  IF HasFreeUnit(Len(R.users[s]), machine_counts[s])
             THEN Engine([R.users EXCEPT ![s] = Append(@, p)],
                         [R.put_queue EXCEPT ![s] = Remove(@, p)],
                         Schedule(R.queue, Event(at, FALSE, "Request", p, s)))
             ELSE R

\* self.stations[s].request(): join the put queue, then trigger
Request(R, s, p, at) ==
    TriggerPut(Engine(R.users, [R.put_queue EXCEPT ![s] = Append(@, p)], R.queue),
               s, at)

\* leaving the with-block: the unit is given back at once, the release event
\* (whose callback triggers the put queue) is scheduled
Release(R, s, p, at) ==
    Engine([R.users EXCEPT ![s] = Remove(@, p)], R.put_queue,
           Schedule(R.queue, Event(at, FALSE, "Release", p, s)))

NextStationSkipping(s) == "Testing"

\* process_order: the with-block that follows the one of station s
NextStation(s) == IF s = "Prep" THEN "Assembly" ELSE "Testing"

\* ------------------------------------------------------------- order records
RevenueForEarlyPenalty(lead_time) ==
    IF lead_time > MAX_LEAD_TIME_FOR_BONUS \div 2
    THEN REVENUE_PER_ORDER - LATE_PENALTY
    ELSE REVENUE_PER_ORDER

RevenueFor(lead_time) ==
    IF lead_time > MAX_LEAD_TIME_FOR_BONUS
    THEN REVENUE_PER_ORDER - LATE_PENALTY
    ELSE REVENUE_PER_ORDER

FinishTimeGlobalPlusDays(arrival_time_global, env_now) ==
    arrival_time_global + ((day * 24) + env_now)

FinishTimeGlobal(arrival_time_global, env_now) == arrival_time_global + env_now

LeadTime(arrival_time_global, env_now) ==
    FinishTimeGlobal(arrival_time_global, env_now) - arrival_time_global

CompletionRecordOfCounter(order_id, arrival_time_global, env_now) ==
    [OrderID |-> order_id_counter,
     Revenue |-> RevenueFor(LeadTime(arrival_time_global, env_now)),
     DayCompleted |-> day + 1,
     LeadTime |-> LeadTime(arrival_time_global, env_now)]

CompletionRecord(order_id, arrival_time_global, env_now) ==
    [OrderID |-> order_id,
     Revenue |-> RevenueFor(LeadTime(arrival_time_global, env_now)),
     DayCompleted |-> day + 1,
     LeadTime |-> LeadTime(arrival_time_global, env_now)]

NextOrderIdStuck(lastid) == lastid

\* state['last_order_id'] += 1
NextOrderId(lastid) == lastid + 1

ExtendHistoryInFront(logs, completed) == completed \o logs

\* state['history_logs'].extend(factory.completed_orders)
ExtendHistory(logs, completed) == logs \o completed

NextDayIfWork(d) == IF completed_orders = <<>> THEN d ELSE d + 1

\* state['day'] += 1
NextDay(d) == d + 1

GlobalArrival(d, elapsed) == (d * 24) + elapsed

NewProcess(arrival_time_global) ==
    [stage |-> "Prep", status |-> "start",
     arrival_time_global |-> arrival_time_global]

\* ------------------------------------------------------------------- Init
Init ==
    /\ day = 0
    /\ cash = StartingCash
    /\ history_logs = <<>>
    /\ backlog = <<>>
    /\ last_order_id = 0
    /\ machines_owned = NoMachines
    /\ pc = "idle"
    /\ warning = FALSE
    /\ machine_counts = OneEach
    /\ now = 0
    /\ queue = <<>>
    /\ users = Empty
    /\ put_queue = Empty
    /\ procs = NoMachines
    /\ t = 0
    /\ completed_orders = <<>>
    /\ order_id_counter = 0

\* ------------------------------------------------- RUN NEXT DAY (the button)
Owned == IF DOMAIN machines_owned = {} THEN OneEach ELSE machines_owned

Diff(requested, k) == requested[k] - Owned[k]

Bought(requested, k) == Diff(requested, k) > 0

CapexOfTotal(requested, k) ==
    IF Bought(requested, k) THEN requested[k] * MACHINE_COST ELSE 0

Capex(requested, k) ==
    IF Bought(requested, k) THEN Diff(requested, k) * MACHINE_COST ELSE 0

CostOfLastStation(requested) == Capex(requested, "Testing")

CostWithinFunds(requested) ==
    LET total == Capex(requested, "Prep") + Capex(requested, "Assembly")
                     + Capex(requested, "Testing")
    IN  IF total > cash THEN 0 ELSE total

Cost(requested) ==
    Capex(requested, "Prep") + Capex(requested, "Assembly")
        + Capex(requested, "Testing")

UpdatedOwnedAlways(requested, k) == requested[k]

\* state['machines_owned'][k] = v, only under diff > 0
UpdatedOwned(requested, k) ==
    IF Bought(requested, k) THEN requested[k] ELSE Owned[k]

CampaignActiveOneMore == day <= CampaignDays

CampaignActive == day < CampaignDays

\* DailyFactory.__init__ and the start of run_one_day: one process per order
\* of the backlog, then the arrivals generator, then the stop event of
\* env.run(until=HOURS_PER_DAY)
BacklogProcs ==
    [id \in {backlog[i].id : i \in 1..Len(backlog)} |->
        NewProcess((CHOOSE i \in 1..Len(backlog) : backlog[i].id = id)
                      .arrival_time_global)]

InitialQueue ==
    [i \in 1..Len(backlog) |-> Event(0, TRUE, "Initialize", backlog[i].id, "Prep")]
        \o <<Event(0, TRUE, "Initialize", ARRIVALS, "Prep"),
             Event(HOURS_PER_DAY, TRUE, "Stop", ARRIVALS, "Prep")>>

\* the three number inputs (min_value=1, value=1), as far as the bounds let
\* the user move them away from their default
MachineInputs ==
    IF day < BusyDays
    THEN [PROC_TIMES -> DefaultMachines..MaxMachines]
    ELSE {OneEach}

RunNextDay ==
    /\ pc = "idle"
    /\ CampaignActive
    /\ \E requested \in MachineInputs :
        /\ machines_owned' = [k \in PROC_TIMES |-> UpdatedOwned(requested, k)]
        /\ cash' = IF Cost(requested) > 0 THEN cash - Cost(requested) ELSE cash
        /\ machine_counts' = requested
    /\ pc' = "running"
    /\ warning' = FALSE
    /\ now' = 0
    /\ queue' = InitialQueue
    /\ users' = Empty
    /\ put_queue' = Empty
    /\ procs' = BacklogProcs
    /\ t' = 0
    /\ completed_orders' = <<>>
    /\ order_id_counter' = last_order_id
    /\ UNCHANGED <<day, history_logs, backlog, last_order_id>>

RunAfterEnd ==
    /\ pc = "idle"
    /\ ~CampaignActive
    /\ warning' = TRUE
    /\ UNCHANGED <<campaign, pc, factory>>

\* ------------------------------------------------------ the day's event loop
Running == pc = "running" /\ queue # <<>>

\* the samples the bounds allow the arrivals generator to draw
ArrivalChoices(elapsed, lastid) ==
    IF lastid < MaxOrders /\ day < BusyDays
    THEN InterarrivalSamples
    ELSE {i \in InterarrivalSamples : elapsed + i > HOURS_PER_DAY}

\* daily_arrivals, one turn of its loop: sample, add to t, stop after 24 h or
\* wait for the gap
ArrivalsLoop(q, elapsed, lastid, at) ==
    \E i \in ArrivalChoices(elapsed, lastid) :
        /\ t' = elapsed + i
        /\ queue' = IF elapsed + i > HOURS_PER_DAY THEN q
                    ELSE Schedule(q, Event(at + i, FALSE, "Timeout", ARRIVALS, "Prep"))

ArrivalsStart ==
    /\ Running
    /\ Head(queue).kind = "Initialize" /\ Head(queue).proc = ARRIVALS
    /\ now' = Head(queue).time
    /\ ArrivalsLoop(Tail(queue), 0, last_order_id, Head(queue).time)
    /\ UNCHANGED <<campaign, pc, warning, machine_counts, users, put_queue,
                   procs, completed_orders, order_id_counter>>

Arrival ==
    /\ Running
    /\ Head(queue).kind = "Timeout" /\ Head(queue).proc = ARRIVALS
    /\ now' = Head(queue).time
    /\ last_order_id' = NextOrderId(last_order_id)
    /\ procs' = [id \in DOMAIN procs \cup {last_order_id'} |->
                    IF id = last_order_id'
                    THEN NewProcess(GlobalArrival(day, t))
                    ELSE procs[id]]
    /\ ArrivalsLoop(Schedule(Tail(queue),
                             Event(Head(queue).time, TRUE, "Initialize",
                                   last_order_id', "Prep")),
                    t, last_order_id', Head(queue).time)
    /\ UNCHANGED <<day, cash, history_logs, backlog, machines_owned, pc, warning,
                   machine_counts, users, put_queue, completed_orders,
                   order_id_counter>>

\* process_order starts: request Prep
StartOrder ==
    /\ Running
    /\ Head(queue).kind = "Initialize" /\ Head(queue).proc # ARRIVALS
    /\ LET e == Head(queue)
           R == Request(Engine(users, put_queue, Tail(queue)), "Prep", e.proc, e.time)
       IN  /\ now' = e.time
           /\ users' = R.users
           /\ put_queue' = R.put_queue
           /\ queue' = R.queue
           /\ procs' = [procs EXCEPT ![e.proc].status = "wait"]
    /\ UNCHANGED <<campaign, pc, warning, machine_counts, t, completed_orders,
                   order_id_counter>>

\* yield req returns: hold the unit for a sampled duration
Granted ==
    /\ Running
    /\ Head(queue).kind = "Request"
    /\ LET e == Head(queue)
       IN  /\ now' = e.time
           /\ \E d \in ServiceSamples :
                queue' = Schedule(Tail(queue),
                                  Event(e.time + d, FALSE, "Timeout", e.proc, e.station))
           /\ procs' = [procs EXCEPT ![e.proc].status = "hold"]
    /\ UNCHANGED <<campaign, pc, warning, machine_counts, users, put_queue, t,
                   completed_orders, order_id_counter>>

\* the hold ends: release the unit, then request the next station or, after
\* Testing, record the completion
ServiceDone ==
    /\ Running
    /\ Head(queue).kind = "Timeout" /\ Head(queue).proc # ARRIVALS
    /\ LET e == Head(queue)
           p == e.proc
           s == procs[p].stage
           R1 == Release(Engine(users, put_queue, Tail(queue)), s, p, e.time)
           R2 == IF s = "Testing" THEN R1
                 ELSE Request(R1, NextStation(s), p, e.time)
       IN  /\ now' = e.time
           /\ users' = R2.users
           /\ put_queue' = R2.put_queue
           /\ queue' = R2.queue
           /\ IF s = "Testing"
              THEN /\ completed_orders' =
                         Append(completed_orders,
                                CompletionRecord(p, procs[p].arrival_time_global, e.time))
                   /\ procs' = [id \in DOMAIN procs \ {p} |-> procs[id]]
              ELSE /\ completed_orders' = completed_orders
                   /\ procs' = [procs EXCEPT ![p].stage = NextStation(s),
                                             ![p].status = "wait"]
    /\ UNCHANGED <<campaign, pc, warning, machine_counts, t, order_id_counter>>

\* the release event is processed: its callback triggers the put queue
Released ==
    /\ Running
    /\ Head(queue).kind = "Release"
    /\ LET e == Head(queue)
           R == TriggerPut(Engine(users, put_queue, Tail(queue)), e.station, e.time)
       IN  /\ now' = e.time
           /\ users' = R.users
           /\ put_queue' = R.put_queue
           /\ queue' = R.queue
    /\ UNCHANGED <<campaign, pc, warning, machine_counts, procs, t,
                   completed_orders, order_id_counter>>

\* env.run returns at the stop event; end-of-day processing of run_one_day,
\* then st.rerun() (the factory and its environment are dropped)
EndOfDay ==
    /\ Running
    /\ Head(queue).kind = "Stop"
    /\ cash' = cash + SumRevenue(completed_orders)
    /\ history_logs' = ExtendHistory(history_logs, completed_orders)
    /\ day' = NextDay(day)
    /\ pc' = "idle"
    /\ now' = 0
    /\ queue' = <<>>
    /\ users' = Empty
    /\ put_queue' = Empty
    /\ procs' = NoMachines
    /\ t' = 0
    /\ completed_orders' = <<>>
    /\ order_id_counter' = 0
    /\ machine_counts' = OneEach
    /\ UNCHANGED <<backlog, last_order_id, machines_owned, warning>>

Next ==
    \/ RunNextDay
    \/ RunAfterEnd
    \/ ArrivalsStart
    \/ Arrival
    \/ StartOrder
    \/ Granted
    \/ ServiceDone
    \/ Released
    \/ EndOfDay

Spec == Init /\ [][Next]_vars

\* ================================================================== claims
DayStarts == pc = "idle" /\ pc' = "running"
DayEnds == pc = "running" /\ pc' = "idle"

Ids(seq) == {seq[i] : i \in 1..Len(seq)}
OrderIds(records) == {records[i].OrderID : i \in 1..Len(records)}
IsPrefix(a, b) == Len(a) <= Len(b) /\ SubSeq(b, 1, Len(a)) = a

\* C1 (as claimed): at the end of every day, backlog at day start plus the
\* orders admitted that day equals the orders completed that day plus the
\* backlog stored for the next day, and the stored backlog holds exactly the
\* orders still in flight.
C1_OrderConservation ==
    [][DayEnds =>
          /\ Len(backlog) + (last_order_id - order_id_counter)
                = Len(completed_orders) + Len(backlog')
          /\ {backlog'[i].id : i \in 1..Len(backlog')} = DOMAIN procs]_vars

\* C2: at every instant of a day run, no station has more orders holding a
\* unit than the capacity it was created with.
C2_CapacityInvariant ==
    \A s \in PROC_TIMES : Len(users[s]) <= machine_counts[s]

\* C2 witness: a two-machine station is fully occupied and an order waits.
C2_Witness ==
    /\ pc = "running"
    /\ \E s \in PROC_TIMES :
          /\ machine_counts[s] = 2
          /\ Len(users[s]) = 2
          /\ put_queue[s] # <<>>

\* C3: of two orders waiting at the same station the one that requested
\* first is never left waiting while the other is granted a unit, and a unit
\* handed to a waiting order goes to the head of that station's queue.
C3_FifoFairness ==
    [][\A s \in PROC_TIMES :
          /\ \A i, j \in 1..Len(put_queue[s]) :
                i < j =>
                    ~(/\ put_queue[s][j] \in Ids(users'[s])
                      /\ put_queue[s][i] \in Ids(put_queue'[s]))
          /\ (put_queue[s] # <<>> /\ Ids(users'[s]) \ Ids(users[s]) # {}) =>
                Ids(users'[s]) \ Ids(users[s]) = {Head(put_queue[s])}]_vars

\* C3 witness: two orders arrived at the same instant; time has passed,
\* the earlier one has just been granted Prep and the later still waits.
C3_Witness ==
    /\ pc = "running"
    /\ \E u, w \in DOMAIN procs :
          /\ u < w
          /\ procs[u].arrival_time_global = procs[w].arrival_time_global
          /\ GlobalArrival(day, now) > procs[u].arrival_time_global
          /\ u \in Ids(users["Prep"])
          /\ procs[u].stage = "Prep" /\ procs[u].status = "wait"
          /\ put_queue["Prep"] # <<>> /\ Head(put_queue["Prep"]) = w

\* C4 (as claimed): the lead time recorded at a completion is the global
\* completion time (day*24 + time of day) minus the global arrival time.
C4_GlobalLeadTime ==
    [][Len(completed_orders') > Len(completed_orders) =>
          LET r == completed_orders'[Len(completed_orders')]
          IN  r.LeadTime
                 = ((day * 24) + now') - procs[r.OrderID].arrival_time_global]_vars

\* C5: every completion record carries revenue 1000 when its lead time is at
\* most 24 hours and 500 when it is greater; no other revenue is recorded.
C5_RevenueRule ==
    \A r \in Ids(completed_orders) \cup Ids(history_logs) :
        /\ r.LeadTime <= 24 => r.Revenue = 1000
        /\ r.LeadTime > 24 => r.Revenue = 500
        /\ r.Revenue \in {1000, 500}

\* C5 witness: the history holds a record of an order that did not complete
\* in the minimum time.
C5_Witness ==
    \E r \in Ids(history_logs) : r.LeadTime > 12 /\ r.Revenue = 1000

\* C6: the last-assigned id never decreases and moves by one per admitted
\* order; the admitted order gets the new last-assigned id, which is greater
\* than every id in use or recorded before.
C6_MonotonicIds ==
    [][/\ last_order_id' >= last_order_id
       /\ last_order_id' # last_order_id => last_order_id' = last_order_id + 1
       /\ \A id \in DOMAIN procs' \ DOMAIN procs :
             /\ DayStarts \/ (id = last_order_id' /\ id = last_order_id + 1)
             /\ \A old \in DOMAIN procs \cup OrderIds(history_logs)
                               \cup OrderIds(completed_orders) : id > old]_vars

\* C6 witness: orders were admitted on two different days of one campaign.
C6_Witness ==
    /\ day = 1
    /\ history_logs # <<>>
    /\ \E id \in DOMAIN procs : id > order_id_counter /\ order_id_counter > 0

\* C7 (as claimed): a request below the owned count of some station is
\* rejected: no day starts with a capacity below the owned count.
C7_LowerRequestRejected ==
    [][DayStarts => \A k \in PROC_TIMES : machine_counts'[k] >= Owned[k]]_vars

C9_CampaignEnd ==
    /\ [](day \in 0..30)
    /\ [][day = 30 =>
             /\ UNCHANGED <<cash, day, machines_owned, history_logs, last_order_id>>
             /\ pc' = "idle"]_vars

\* C9 witness: a run was requested at day 30 and refused.
C9_Witness == day = 30 /\ warning

\* C10: the end of a day adds the summed revenue of that day's completed
\* orders to cash, appends exactly those records to the history and adds one
\* to the day counter; no step changes an earlier history entry.
C10_ApplyResult ==
    [][/\ IsPrefix(history_logs, history_logs')
       /\ DayEnds =>
             /\ cash' = cash + SumRevenue(completed_orders)
             /\ Len(history_logs') = Len(history_logs) + Len(completed_orders)
             /\ SubSeq(history_logs', Len(history_logs) + 1, Len(history_logs'))
                   = completed_orders
             /\ day' = day + 1
       /\ ~DayEnds => history_logs' = history_logs /\ day' = day]_vars

\* C10 witness: a day with completions ended after an earlier day with
\* completions.
C10_Witness ==
    /\ pc = "idle"
    /\ \E i, j \in 1..Len(history_logs) :
          history_logs[i].DayCompleted = 1 /\ history_logs[j].DayCompleted = 2

\* C11 (as claimed): an order still in flight at the end of a day is a
\* process of the next day: while a day runs, every order admitted so far in
\* the campaign is completed or is one of the day's processes.
C11_CarriedOrdersResume ==
    pc = "running" =>
        \A id \in 1..last_order_id :
            id \in OrderIds(history_logs) \cup OrderIds(completed_orders)
                      \cup DOMAIN procs

\* C12: the owned count of a station never decreases from one state to the
\* next and is never below the starting count of 1.
C12_OwnedMonotone ==
    /\ [](\A k \in DOMAIN machines_owned : machines_owned[k] >= 1)
    /\ [][\A k \in PROC_TIMES :
             LET before == IF DOMAIN machines_owned = {} THEN 1
                           ELSE machines_owned[k]
                 after == IF DOMAIN machines_owned' = {} THEN 1
                          ELSE machines_owned'[k]
             IN  after >= before]_vars

\* C12 witness: a day runs with fewer Prep machines than are owned.
C12_Witness ==
    /\ pc = "running"
    /\ DOMAIN machines_owned # {}
    /\ machines_owned["Prep"] = 2
    /\ machine_counts["Prep"] = 1

\* C13: a purchase that costs more than the cash at hand is carried out in
\* full (cost deducted, owned counts raised, day started), leaving cash
\* negative; the only refusal of a run request is the one at day 30.
C13_NoFundsCheck ==
    /\ [](warning => day = 30)
    /\ [][LET before(k) == IF DOMAIN machines_owned = {} THEN 1
                           ELSE machines_owned[k]
              extra(k) == IF machine_counts'[k] > before(k)
                          THEN machine_counts'[k] - before(k) ELSE 0
              price == 20000 * (extra("Prep") + extra("Assembly")
                                   + extra("Testing"))
          IN  (DayStarts /\ price > cash) =>
                 /\ cash' = cash - price
                 /\ cash' < 0
                 /\ \A k \in PROC_TIMES :
                       extra(k) > 0 => machines_owned'[k] = machine_counts'[k]]_vars

\* C13 witness: three machines bought out of 50000, the day runs with them
\* and cash is negative.
C13_Witness ==
    /\ pc = "running"
    /\ cash < 0
    /\ machine_counts = [Prep |-> 2, Assembly |-> 2, Testing |-> 2]
    /\ machines_owned = machine_counts

\* C14: a day without arrivals ends with no completed order, leaves cash and
\* history as they were, advances the day counter by one and stores a
\* backlog with the same order ids as before the day.
C14_ZeroArrivalDay ==
    [][(DayEnds /\ last_order_id = order_id_counter) =>
          /\ completed_orders = <<>>
          /\ cash' = cash
          /\ history_logs' = history_logs
          /\ day' = day + 1
          /\ {backlog'[i].id : i \in 1..Len(backlog')}
                = {backlog[i].id : i \in 1..Len(backlog)}]_vars

\* C14 witness: on a later day of a campaign that has admitted orders, the
\* generator has stopped without an arrival and only the stop event is left.
C14_Witness ==
    /\ pc = "running"
    /\ day >= 1
    /\ order_id_counter > 0
    /\ last_order_id = order_id_counter
    /\ t > HOURS_PER_DAY
    /\ Len(queue) = 1 /\ Head(queue).kind = "Stop"

\* C15: an order process starts at Prep and moves Prep -> Assembly ->
\* Testing, each move after a hold; it holds or awaits a unit only at its
\* current station and never two at once; its completion record is written
\* after the Testing hold, once, and ends the process.
C15_StageOrdering ==
    /\ [](\A p \in DOMAIN procs :
             LET holding == {s \in PROC_TIMES : p \in Ids(users[s])}
                 waiting == {s \in PROC_TIMES : p \in Ids(put_queue[s])}
             IN  /\ Cardinality(holding \cup waiting) <= 1
                 /\ holding \cup waiting \subseteq {procs[p].stage}
                 /\ holding \cap waiting = {}
                 /\ procs[p].status = "hold" => holding = {procs[p].stage}
                 /\ procs[p].status = "start" => holding \cup waiting = {})
    /\ [][/\ \A p \in DOMAIN procs' \ DOMAIN procs :
                procs'[p].stage = "Prep" /\ procs'[p].status = "start"
          /\ \A p \in DOMAIN procs \cap DOMAIN procs' :
                procs'[p].stage # procs[p].stage =>
                    /\ procs[p].status = "hold"
                    /\ \/ procs[p].stage = "Prep" /\ procs'[p].stage = "Assembly"
                       \/ procs[p].stage = "Assembly" /\ procs'[p].stage = "Testing"
                    /\ p \notin Ids(users'[procs[p].stage])
          /\ (pc = "running" /\ pc' = "running"
                /\ completed_orders' # completed_orders) =>
                \E p \in DOMAIN procs :
                    /\ procs[p].stage = "Testing" /\ procs[p].status = "hold"
                    /\ p \notin DOMAIN procs'
                    /\ p \notin OrderIds(completed_orders)
                    /\ Len(completed_orders') = Len(completed_orders) + 1
                    /\ IsPrefix(completed_orders, completed_orders')
                    /\ completed_orders'[Len(completed_orders')].OrderID = p]_vars

\* C15 witness: one order has its completion record while another holds an
\* Assembly unit.
C15_Witness ==
    /\ pc = "running"
    /\ completed_orders # <<>>
    /\ \E p \in DOMAIN procs :
          /\ procs[p].stage = "Assembly" /\ procs[p].status = "hold"
          /\ p \in Ids(users["Assembly"])

\* C16 (as claimed): every sampled arrival whose elapsed time t is at most
\* 24 is admitted that day, with id last-assigned + 1, global timestamp
\* day*24 + t and its process started at time of day t; once t exceeds 24 no
\* further id is consumed that day.
C16_ArrivalAdmission ==
    [][/\ last_order_id' # last_order_id =>
             /\ last_order_id' = last_order_id + 1
             /\ last_order_id' \in DOMAIN procs' \ DOMAIN procs
             /\ procs'[last_order_id'].arrival_time_global = (day * 24) + t
             /\ now' = t
             /\ \E i \in 1..Len(queue') :
                   /\ queue'[i].kind = "Initialize"
                   /\ queue'[i].proc = last_order_id'
                   /\ queue'[i].time = t
       /\ (pc = "running" /\ t > 24) => last_order_id' = last_order_id
       /\ DayEnds =>
             ~\E i \in 1..Len(queue) :
                   /\ queue[i].kind = "Timeout"
                   /\ queue[i].proc = ARRIVALS
                   /\ queue[i].time <= 24]_vars

\* C17: cash is always 50000 plus the revenue of all history entries minus
\* 20000 for every machine owned beyond the first of each station.
C17_CashAccounting ==
    LET owned(k) == IF DOMAIN machines_owned = {} THEN 1 ELSE machines_owned[k]
        bought == (owned("Prep") - 1) + (owned("Assembly") - 1)
                      + (owned("Testing") - 1)
    IN  cash = 50000 + SumRevenue(history_logs) - (20000 * bought)

\* C17 witness: between days, with revenue in the history and machines
\* bought at two stations.
C17_Witness ==
    /\ pc = "idle"
    /\ Len(history_logs) >= 2
    /\ DOMAIN machines_owned # {}
    /\ machines_owned["Prep"] = 2 /\ machines_owned["Testing"] = 2

\* C18: no order id appears in two history entries, and every order id in
\* the history lies between 1 and the last-assigned id.
C18_NoDuplicateCompletions ==
    /\ \A i, j \in 1..Len(history_logs) :
          i # j => history_logs[i].OrderID # history_logs[j].OrderID
    /\ \A i \in 1..Len(history_logs) :
          history_logs[i].OrderID \in 1..last_order_id

\* C18 witness: the history holds completions of two different days.
C18_Witness ==
    /\ Len(history_logs) >= 3
    /\ \E i, j \in 1..Len(history_logs) :
          history_logs[i].DayCompleted # history_logs[j].DayCompleted

\* C19: every history entry has a lead time of at most 24 hours and revenue
\* 1000; no record with revenue 500 exists.
C19_NoLatePenalty ==
    \A r \in Ids(history_logs) \cup Ids(completed_orders) :
        r.LeadTime <= 24 /\ r.Revenue = 1000

\* C19 witness: an order that arrived on the second day at noon is in the
\* history with the time of day of its completion as lead time.
C19_Witness ==
    \E r \in Ids(history_logs) : r.DayCompleted = 2 /\ r.LeadTime = 21

====
